---- MODULE Spec2Model ----
(***************************************************************************)
(* Possession segmentation of a play-by-play stream (src/etl.py) and the   *)
(* box-score validation of src/main.py.                                    *)
(*                                                                         *)
(* A row of pbp_df is a record with the columns the code reads.  A         *)
(* description column is either missing (isna) or a text, kept as the set  *)
(* of the patterns the code searches for that occur in it.                 *)
(***************************************************************************)
EXTENDS Integers, Sequences, FiniteSets, TLC

VARIABLES
    pbp_df,           \* the rows of the stream read so far, ascending
    idx,              \* number of rows the current run has iterated
    poss_df,          \* the possession table
    last_possession,  \* the last-possession cursor
    run,              \* 1 for the first call of isolate_possessions, 2 for a re-run
    trace,            \* <<cursor, table>> after each row of the current run
    first_trace,      \* the trace of the first run, kept when a re-run starts
    call              \* a direct call of a classifier: its arguments and result

vars == <<pbp_df, idx, poss_df, last_possession, run, trace, first_trace, call>>

----------------------------------------------------------------------------
(* Bounds of the model                                                     *)

\* Longest event stream that is explored.
MaxEvents == 3
\* Longest event stream that is processed a second time.
MaxRerunEvents == 2
\* Longest event stream a classifier is called on directly.
MaxCallEvents == 3

----------------------------------------------------------------------------
(* Game context and the input alphabet                                     *)

home_id == 100
visitor_id == 200

\* A missing player1_team_id (team events carry the team in player1_id).
NaN == 0

\* Players that can be "player1" of a shot or a free throw, by team, and of
\* a rebound or a turnover (the code reads only the team of those).
HomeShooters == {1, 2}
VisitorShooters == {11}
Shooters == HomeShooters \cup VisitorShooters
Handlers == {1, 11}
TeamOfPlayer(p) == IF p \in HomeShooters THEN home_id ELSE visitor_id

\* The on-court five of each side; a substitution swaps the fifth slot.
HomeLineups == {<<1, 2, 3, 4, 5>>, <<1, 2, 3, 4, 6>>}
VisitorLineups == {<<11, 12, 13, 14, 15>>, <<11, 12, 13, 14, 16>>}

\* Free-throw trip markers that occur in the explored streams: a final
\* attempt and one that is not (the code tests "1 of 1", "2 of 2" and
\* "3 of 3" as one class, and no other marker).
TripMarkers == {"1 of 1", "1 of 2"}

NoDesc == [isna |-> TRUE, text |-> {}]
Desc(patterns) == [isna |-> FALSE, text |-> patterns]

\* Series.str.contains(pattern, na=False)
Contains(d, pattern) == (~d.isna) /\ pattern \in d.text
\* pattern in str(value): str(nan) is "nan", which holds none of the patterns
InStr(pattern, d) == (~d.isna) /\ pattern \in d.text

\* Mutant of Neq: "==" written for "!=".
EqForNeq(a, b) == a # NaN /\ b # NaN /\ a = b

\* pandas comparison "!=" on a possibly missing value
Neq(a, b) == a = NaN \/ b = NaN \/ a # b

\* A row whose text is on the side of the responsible team.
Row(n, type, team, player, side, patterns, hl, vl) ==
    [eventnum |-> n, eventmsgtype |-> type,
     homedescription |-> IF side = home_id THEN Desc(patterns) ELSE NoDesc,
     visitordescription |-> IF side = visitor_id THEN Desc(patterns) ELSE NoDesc,
     player1_id |-> player, player1_team_id |-> team,
     home_players |-> hl, visitor_players |-> vl]

\* The rows that can follow the stream read so far: the next event index,
\* the lineups of the previous row unless the row is a substitution.
CurHome == IF Len(pbp_df) = 0 THEN <<1, 2, 3, 4, 5>>
           ELSE pbp_df[Len(pbp_df)].home_players
CurVisitor == IF Len(pbp_df) = 0 THEN <<11, 12, 13, 14, 15>>
              ELSE pbp_df[Len(pbp_df)].visitor_players
NextNum == IF Len(pbp_df) = 0 THEN 1 ELSE pbp_df[Len(pbp_df)].eventnum + 1

PlayerRows(type, players, patternSets) ==
    {Row(NextNum, type, TeamOfPlayer(p), p, TeamOfPlayer(p), ps, CurHome, CurVisitor) :
        p \in players, ps \in patternSets}
TeamRows(type) ==
    {Row(NextNum, type, NaN, t, t, {}, CurHome, CurVisitor) : t \in {home_id, visitor_id}}

MadeShotRows == PlayerRows(1, Shooters, {{}, {"3PT"}})
MissedShotRows == PlayerRows(2, Shooters, {{"MISS"}})
FreeThrowRows ==
    PlayerRows(3, Shooters, {{m} : m \in TripMarkers}
                            \cup {{"MISS", m} : m \in TripMarkers})
ReboundRows == PlayerRows(4, Handlers, {{}}) \cup TeamRows(4)
TurnoverRows == PlayerRows(5, Handlers, {{}}) \cup TeamRows(5)
SubstitutionRows ==
    {Row(NextNum, 8, home_id, 1, home_id, {}, hl, CurVisitor) :
        hl \in HomeLineups \ {CurHome}}
    \cup {Row(NextNum, 8, visitor_id, 11, visitor_id, {}, CurHome, vl) :
        vl \in VisitorLineups \ {CurVisitor}}

NewRows == MadeShotRows \cup MissedShotRows \cup FreeThrowRows
           \cup ReboundRows \cup TurnoverRows \cup SubstitutionRows

----------------------------------------------------------------------------
(* DataFrame helpers                                                       *)

Last(df) == df[Len(df)]
\* Mutant of LastByEventnum: iloc[0] written for iloc[-1].
FirstByEventnum(df) ==
    CHOOSE r \in {df[i] : i \in 1..Len(df)} :
        \A i \in 1..Len(df) : df[i].eventnum >= r.eventnum

\* df.sort_values("eventnum").iloc[-1]
LastByEventnum(df) ==
    CHOOSE r \in {df[i] : i \in 1..Len(df)} :
        \A i \in 1..Len(df) : df[i].eventnum <= r.eventnum

\* A free throw whose row says neither side missed (lines 120-123, 142-145).
MadeOnBothSides(r) ==
    /\ ~Contains(r.homedescription, "MISS")
    /\ ~Contains(r.visitordescription, "MISS")

\* Mutant of QualifiedMiss: the trip-marker test left out.
AnyMiss(r) ==
    \/ r.eventmsgtype = 2
    \/ /\ r.eventmsgtype = 3
       /\ \/ Contains(r.homedescription, "MISS")
          \/ Contains(r.visitordescription, "MISS")

\* Lines 44-59: a missed field goal or the last missed free throw of a trip.
QualifiedMiss(r) ==
    \/ r.eventmsgtype = 2
    \/ /\ r.eventmsgtype = 3
       /\ \/ Contains(r.homedescription, "MISS")
          \/ Contains(r.visitordescription, "MISS")
       /\ \E m \in {"1 of 1", "2 of 2", "3 of 3"} :
            \/ Contains(r.homedescription, m)
            \/ Contains(r.visitordescription, m)

----------------------------------------------------------------------------
(* Possession Boundary Classifier                                          *)

\* Lines 36-61: the qualified misses between the cursor and the rebound.
qualified_shot_df(play, df, last) ==
    LET rebound_event == play.eventnum
    IN  SelectSeq(df, LAMBDA r : /\ r.eventnum > last
                                 /\ r.eventnum < rebound_event
                                 /\ QualifiedMiss(r))

determine_rebound_type(play, df, last) ==
    LET rebound_event == play.eventnum
        shot_df == qualified_shot_df(play, df, last)
    IN  IF Len(shot_df) = 0
        THEN [def_rebound |-> FALSE, points |-> 0, remove_shot |-> -1]
        ELSE
        LET shot == LastByEventnum(shot_df)
            window == SelectSeq(df, LAMBDA r : /\ r.eventnum > last
                                            /\ r.eventnum < rebound_event)
            made_shot_df == SelectSeq(window, LAMBDA r : /\ r.eventmsgtype = 1
                                                      /\ r.player1_id = shot.player1_id)
            missed_shot_df == SelectSeq(window, LAMBDA r : /\ r.eventmsgtype = 2
                                                        /\ r.player1_id = shot.player1_id)
            made_free_throw_df == SelectSeq(window, LAMBDA r : /\ r.eventmsgtype = 3
                                                            /\ MadeOnBothSides(r))
            made_shot == Last(made_shot_df)
            shot_value == IF \/ InStr("3PT", made_shot.homedescription)
                             \/ InStr("3PT", made_shot.visitordescription)
                          THEN 3 ELSE 2
            points == IF shot.eventmsgtype = 3
                      THEN IF Len(made_shot_df) > 0
                           THEN shot_value + Len(made_free_throw_df)
                           ELSE Len(made_free_throw_df)
                      ELSE 0
            remove_shot == IF shot.eventmsgtype = 3
                           THEN IF Len(made_shot_df) > 0
                                THEN made_shot.eventnum
                                ELSE IF Len(missed_shot_df) > 0
                                     THEN Last(missed_shot_df).eventnum
                                     ELSE -1
                           ELSE -1
            def_rebound == /\ Neq(shot.player1_team_id, play.player1_team_id)
                           /\ Neq(shot.player1_team_id, play.player1_id)
        IN  [def_rebound |-> def_rebound, points |-> points,
             remove_shot |-> remove_shot]

\* The description column the scoring classifier reads (line 191).
DescOf(r, play, home) ==
    IF play.player1_team_id = home THEN r.homedescription ELSE r.visitordescription

determine_scoring_type(play, df, last, home) ==
    LET shot_event == play.eventnum
        window == SelectSeq(df, LAMBDA r : /\ r.eventnum > last
                                        /\ r.eventnum <= shot_event)
        side_free_throw_df ==
            SelectSeq(window, LAMBDA r : /\ r.eventmsgtype = 3
                                      /\ ~Contains(DescOf(r, play, home), "MISS"))
        own_free_throw_df ==
            SelectSeq(window, LAMBDA r : /\ r.eventmsgtype = 3
                                      /\ r.player1_id = play.player1_id
                                      /\ ~Contains(DescOf(r, play, home), "MISS"))
        made_shot_df == SelectSeq(window, LAMBDA r : /\ r.eventmsgtype = 1
                                                  /\ r.player1_id = play.player1_id)
        made_shot == Last(made_shot_df)
    IN  IF play.eventmsgtype = 1
        THEN [valid_shot |-> TRUE,
              points |-> (IF \/ InStr("3PT", play.homedescription)
                             \/ InStr("3PT", play.visitordescription)
                          THEN 3 ELSE 2) + Len(side_free_throw_df),
              remove_shot |-> -1]
        ELSE IF Len(own_free_throw_df) > 0
             THEN IF Len(made_shot_df) > 0
                  THEN [valid_shot |-> TRUE,
                        points |-> (IF InStr("3PT", DescOf(made_shot, play, home))
                                    THEN 3 ELSE 2) + Len(side_free_throw_df),
                        remove_shot |-> made_shot.eventnum]
                  ELSE [valid_shot |-> TRUE,
                        points |-> 0 + Len(side_free_throw_df),
                        remove_shot |-> -1]
             ELSE [valid_shot |-> FALSE, points |-> 0, remove_shot |-> -1]

----------------------------------------------------------------------------
(* Possession Record Builder                                               *)

Record(points, eventnum, off_id, def_id, off_players, def_players) ==
    [points |-> points, eventnum |-> eventnum,
     offensive_team_id |-> off_id, defensive_team_id |-> def_id,
     offensive_players |-> off_players, defensive_players |-> def_players]

\* Mutants of create_turnover_play: the record keyed by the wrong column; the
\* roles of a rebound.
create_turnover_play_keyed_by_type(play, home, visitor) ==
    IF play.player1_team_id = home
    THEN Record(0, play.eventmsgtype, home, visitor,
                play.home_players, play.visitor_players)
    ELSE Record(0, play.eventmsgtype, visitor, home,
                play.visitor_players, play.home_players)

create_turnover_play_roles_swapped(play, home, visitor) ==
    IF play.player1_team_id = home
    THEN Record(0, play.eventnum, visitor, home,
                play.visitor_players, play.home_players)
    ELSE Record(0, play.eventnum, home, visitor,
                play.home_players, play.visitor_players)

create_turnover_play(play, home, visitor) ==
    IF play.player1_team_id = home
    THEN Record(0, play.eventnum, home, visitor,
                play.home_players, play.visitor_players)
    ELSE Record(0, play.eventnum, visitor, home,
                play.visitor_players, play.home_players)

\* Mutant of create_rebound_play: def_id of the else branch copied from the
\* then branch.
create_rebound_play_same_ids(play, home, visitor, points) ==
    IF play.player1_team_id = home
    THEN Record(points, play.eventnum, visitor, home,
                play.visitor_players, play.home_players)
    ELSE Record(points, play.eventnum, home, home,
                play.home_players, play.visitor_players)

create_rebound_play(play, home, visitor, points) ==
    IF play.player1_team_id = home
    THEN Record(points, play.eventnum, visitor, home,
                play.visitor_players, play.home_players)
    ELSE Record(points, play.eventnum, home, visitor,
                play.home_players, play.visitor_players)

\* Mutant of create_scoring_play: def_prefix of the then branch left "home_".
create_scoring_play_same_prefix(play, home, visitor, points) ==
    IF play.player1_team_id = home
    THEN Record(points, play.eventnum, home, visitor,
                play.home_players, play.home_players)
    ELSE Record(points, play.eventnum, visitor, home,
                play.visitor_players, play.home_players)

create_scoring_play(play, home, visitor, points) ==
    IF play.player1_team_id = home
    THEN Record(points, play.eventnum, home, visitor,
                play.home_players, play.visitor_players)
    ELSE Record(points, play.eventnum, visitor, home,
                play.visitor_players, play.home_players)

----------------------------------------------------------------------------
(* Possession Sequencer                                                    *)

\* Mutant of InitialCursor: the cursor kept from one call to the next.
KeptCursor(prev) == prev

\* Line 442: the cursor a run starts from; prev is the cursor of the
\* previous run, which the code does not keep.
InitialCursor(prev) == 0

Init ==
    /\ pbp_df = <<>>
    /\ idx = 0
    /\ poss_df = <<>>
    /\ last_possession = InitialCursor(0)
    /\ run = 1
    /\ trace = <<>>
    /\ first_trace = <<>>
    /\ call = [fn |-> "none"]

\* The rows "for index, row in pbp_df.iterrows()" can yield next.  The
\* classifiers only read rows up to the current one, so the first run reads
\* the stream as it goes; a later run iterates the stream already read.
NextRows ==
    IF idx < Len(pbp_df) THEN {pbp_df[idx + 1]}
    ELSE IF run = 1 /\ Len(pbp_df) < MaxEvents THEN NewRows
    ELSE {}

Stream(row) == IF idx < Len(pbp_df) THEN pbp_df ELSE Append(pbp_df, row)

\* Mutant of Retract: "==" written for "!=".
RetractKept(df, remove_shot) == SelectSeq(df, LAMBDA r : r.eventnum = remove_shot)

\* poss_df[poss_df["eventnum"] != remove_shot]
Retract(df, remove_shot) == SelectSeq(df, LAMBDA r : r.eventnum # remove_shot)

\* Mutants of Advance: the cursor assigned on every pass of the loop; the
\* cursor never assigned.
AdvanceCursorAlways(row, table, cursor) ==
    /\ pbp_df' = Stream(row)
    /\ idx' = idx + 1
    /\ poss_df' = table
    /\ last_possession' = row.eventnum
    /\ trace' = Append(trace, <<row.eventnum, table>>)
    /\ UNCHANGED <<run, first_trace, call>>

AdvanceCursorKept(row, table, cursor) ==
    /\ pbp_df' = Stream(row)
    /\ idx' = idx + 1
    /\ poss_df' = table
    /\ last_possession' = last_possession
    /\ trace' = Append(trace, <<last_possession, table>>)
    /\ UNCHANGED <<run, first_trace, call>>

Advance(row, table, cursor) ==
    /\ pbp_df' = Stream(row)
    /\ idx' = idx + 1
    /\ poss_df' = table
    /\ last_possession' = cursor
    /\ trace' = Append(trace, <<cursor, table>>)
    /\ UNCHANGED <<run, first_trace, call>>

Turnover ==
    \E row \in NextRows :
        /\ row.eventmsgtype = 5
        /\ Advance(row,
                   Append(poss_df, create_turnover_play(row, home_id, visitor_id)),
                   row.eventnum)

Rebound ==
    \E row \in NextRows :
        /\ row.eventmsgtype = 4
        /\ LET res == determine_rebound_type(row, Stream(row), last_possession)
           IN  IF res.def_rebound
               THEN Advance(row,
                            Append(Retract(poss_df, res.remove_shot),
                                   create_rebound_play(row, home_id, visitor_id,
                                                       res.points)),
                            row.eventnum)
               ELSE Advance(row, poss_df, last_possession)

\* Mutant of Shot: line 474 left out.
ShotKeepsCursor ==
    \E row \in NextRows :
        /\ row.eventmsgtype \in {1, 3}
        /\ LET res == determine_scoring_type(row, Stream(row), last_possession,
                                             home_id)
           IN  IF res.valid_shot
               THEN Advance(row,
                            Append(Retract(poss_df, res.remove_shot),
                                   create_scoring_play(row, home_id, visitor_id,
                                                       res.points)),
                            last_possession)
               ELSE Advance(row, poss_df, last_possession)

Shot ==
    \E row \in NextRows :
        /\ row.eventmsgtype \in {1, 3}
        /\ LET res == determine_scoring_type(row, Stream(row), last_possession,
                                             home_id)
           IN  IF res.valid_shot
               THEN Advance(row,
                            Append(Retract(poss_df, res.remove_shot),
                                   create_scoring_play(row, home_id, visitor_id,
                                                       res.points)),
                            row.eventnum)
               ELSE Advance(row, poss_df, last_possession)

\* Mutant of Other: the cursor moved by an event of no branch.
OtherMovesCursor ==
    \E row \in NextRows :
        /\ row.eventmsgtype \notin {1, 3, 4, 5}
        /\ Advance(row, poss_df, row.eventnum)

\* Any other event type falls through the if/elif chain.
Other ==
    \E row \in NextRows :
        /\ row.eventmsgtype \notin {1, 3, 4, 5}
        /\ Advance(row, poss_df, last_possession)

Next == Turnover \/ Rebound \/ Shot \/ Other

\* Every state of the first run with idx = Len(pbp_df) is an end of stream:
\* the loop is exhausted and poss_df is what line 481 returns.
Spec == Init /\ [][Next]_vars

\* isolate_possessions is called again on the stream it has just processed
\* (lines 441-442 build a new table and cursor).
Rerun ==
    /\ run = 1
    /\ idx = Len(pbp_df)
    /\ Len(pbp_df) <= MaxRerunEvents
    /\ run' = 2
    /\ idx' = 0
    /\ poss_df' = <<>>
    /\ last_possession' = InitialCursor(last_possession)
    /\ first_trace' = trace
    /\ trace' = <<>>
    /\ UNCHANGED <<pbp_df, call>>

NextRerun == Next \/ Rerun

SpecRerun == Init /\ [][NextRerun]_vars

\* A caller other than isolate_possessions: it reads a stream and calls
\* determine_rebound_type on one of its rebounds with a cursor of its choice
\* (0 or an event number before the rebound).
Ingest ==
    /\ call.fn = "none"
    /\ idx = 0
    /\ Len(pbp_df) < MaxCallEvents
    /\ \E row \in NewRows : pbp_df' = Append(pbp_df, row)
    /\ UNCHANGED <<idx, poss_df, last_possession, run, trace, first_trace, call>>

CallReboundType ==
    /\ call.fn = "none"
    /\ idx = 0
    /\ \E k \in 1..Len(pbp_df) :
        /\ pbp_df[k].eventmsgtype = 4
        /\ \E cursor \in 0..(pbp_df[k].eventnum - 1) :
              call' = [fn |-> "determine_rebound_type", play |-> k,
                       last_possession |-> cursor,
                       result |-> determine_rebound_type(pbp_df[k], pbp_df, cursor)]
    /\ UNCHANGED <<pbp_df, idx, poss_df, last_possession, run, trace, first_trace>>

NextCall == Ingest \/ CallReboundType

SpecCall == Init /\ [][NextCall]_vars

----------------------------------------------------------------------------
(* Box-score validation (src/main.py)                                      *)

RECURSIVE SumSeq(_)
SumSeq(q) == IF Len(q) = 0 THEN 0 ELSE Head(q) + SumSeq(Tail(q))

\* Line 36: poss_df.groupby("offensive_team_id")["points"].sum(), one group.
score_df(team) ==
    SumSeq([i \in 1..Len(poss_df) |->
              IF poss_df[i].offensive_team_id = team THEN poss_df[i].points ELSE 0])

\* The box score of the stream: 2 or 3 for a made field goal, 1 for a made
\* free throw, credited to the team of the row.
RowPoints(r) ==
    IF r.eventmsgtype = 1
    THEN IF Contains(r.homedescription, "3PT") \/ Contains(r.visitordescription, "3PT")
         THEN 3 ELSE 2
    ELSE IF r.eventmsgtype = 3 /\ MadeOnBothSides(r) THEN 1 ELSE 0

box_df(team) ==
    SumSeq([k \in 1..Len(pbp_df) |->
              IF pbp_df[k].player1_team_id = team THEN RowPoints(pbp_df[k]) ELSE 0])

\* Lines 37-40: the inner merge keeps the teams that have a group.
main_assert ==
    \A team \in {poss_df[i].offensive_team_id : i \in 1..Len(poss_df)} :
        score_df(team) = box_df(team)

----------------------------------------------------------------------------
(* Vocabulary of the properties                                            *)

\* The loop of the first run is exhausted: poss_df is the returned table.
EndOfStream == run = 1 /\ idx = Len(pbp_df)

RowAt(n) == CHOOSE r \in {pbp_df[k] : k \in 1..Len(pbp_df)} : r.eventnum = n
RecordsAt(n) == {i \in 1..Len(poss_df) : poss_df[i].eventnum = n}
Members(players) == {players[s] : s \in 1..Len(players)}

\* The cursor and the table before and after the step for row k of this run.
CursorBefore(k) == IF k = 1 THEN 0 ELSE trace[k - 1][1]
TableBefore(k) == IF k = 1 THEN <<>> ELSE trace[k - 1][2]
CursorAfter(k) == trace[k][1]
TableAfter(k) == trace[k][2]
Unchanged(k) == CursorAfter(k) = CursorBefore(k) /\ TableAfter(k) = TableBefore(k)
\* The step for row k appended a record keyed at row k.
Closes(k) ==
    /\ Len(TableAfter(k)) > 0
    /\ Last(TableAfter(k)).eventnum = pbp_df[k].eventnum
    /\ Len(TableBefore(k)) = 0 \/ Last(TableBefore(k)).eventnum # pbp_df[k].eventnum

Missed(r) == Contains(r.homedescription, "MISS") \/ Contains(r.visitordescription, "MISS")
Marked(r, m) == Contains(r.homedescription, m) \/ Contains(r.visitordescription, m)
FreeThrow(r) == r.eventmsgtype = 3
FinalAttempt(r) == \E m \in {"1 of 1", "2 of 2", "3 of 3"} : Marked(r, m)
MadeFieldGoal(r) == r.eventmsgtype = 1
MissedFieldGoal(r) == r.eventmsgtype = 2
FieldGoalValue(r) == IF Marked(r, "3PT") THEN 3 ELSE 2
SameShooter(r, q) ==
    r.player1_id = q.player1_id /\ r.player1_team_id = q.player1_team_id
OtherTeam(team) == IF team = home_id THEN visitor_id ELSE home_id
NoBoundaryBetween(i, j) == \A k \in (i + 1)..(j - 1) : ~Closes(k)

----------------------------------------------------------------------------
(* C1-C3                                                                   *)

AndOnePair(i, j) ==
    /\ i < j
    /\ MadeFieldGoal(pbp_df[i])
    /\ FreeThrow(pbp_df[j]) /\ ~Missed(pbp_df[j]) /\ Marked(pbp_df[j], "1 of 1")
    /\ SameShooter(pbp_df[i], pbp_df[j])
    /\ NoBoundaryBetween(i, j)

\* C1: at end of stream, a made field goal followed (no boundary in between)
\* by the same player's made "1 of 1" free throw has left exactly one record,
\* keyed at the free throw, worth the field goal's value plus 1, and no
\* record keyed at the field goal.
AndOneFolding ==
    EndOfStream =>
        \A i, j \in 1..Len(pbp_df) :
            AndOnePair(i, j) =>
                /\ RecordsAt(pbp_df[i].eventnum) = {}
                /\ Cardinality(RecordsAt(pbp_df[j].eventnum)) = 1
                /\ \A n \in RecordsAt(pbp_df[j].eventnum) :
                       poss_df[n].points = FieldGoalValue(pbp_df[i]) + 1

\* C2: at end of stream the points of the table, summed by offensive team,
\* equal each team's box-score total.
PointConservation ==
    EndOfStream =>
        \A team \in {home_id, visitor_id} : score_df(team) = box_df(team)

\* C3: the step for a free throw that is not the final attempt of its trip
\* appends no record keyed at it and leaves the cursor where it was.
FreeThrowGuard ==
    \A k \in 1..idx :
        (FreeThrow(pbp_df[k]) /\ ~FinalAttempt(pbp_df[k])) =>
            /\ ~Closes(k)
            /\ CursorAfter(k) = CursorBefore(k)
            /\ RecordsAt(pbp_df[k].eventnum) = {}

----------------------------------------------------------------------------
(* C4-C7                                                                   *)

\* C4: in every record the five offensive and the five defensive players are
\* disjoint and together are the ten on-court players of the record's row.
PlayerPartition ==
    \A i \in 1..Len(poss_df) :
        LET rec == poss_df[i]
            row == RowAt(rec.eventnum)
        IN  /\ Len(rec.offensive_players) = 5
            /\ Len(rec.defensive_players) = 5
            /\ Members(rec.offensive_players) \cap Members(rec.defensive_players) = {}
            /\ Members(rec.offensive_players) \cup Members(rec.defensive_players)
                 = Members(row.home_players) \cup Members(row.visitor_players)

\* A turnover, a rebound or a shot closed a possession after both sides
\* substituted, each kind with either side on offense.
PlayerPartitionWitness ==
    /\ Len(poss_df) > 0
    /\ LET rec == Last(poss_df)
           row == RowAt(rec.eventnum)
       IN  /\ row.home_players # <<1, 2, 3, 4, 5>>
           /\ row.visitor_players # <<11, 12, 13, 14, 15>>
           /\ row.eventmsgtype = 1
           /\ rec.offensive_players = row.visitor_players

\* C5: no two records of the table have the same boundary event index.
KeyUniqueness ==
    \A i, j \in 1..Len(poss_df) :
        i # j => poss_df[i].eventnum # poss_df[j].eventnum

\* Every row of a stream of MaxEvents rows closed a possession.
KeyUniquenessWitness ==
    /\ Len(poss_df) >= 3
    /\ \E i \in 1..Len(poss_df) : RowAt(poss_df[i].eventnum).eventmsgtype = 5
    /\ \E i \in 1..Len(poss_df) : RowAt(poss_df[i].eventnum).eventmsgtype = 3

\* C6: the offensive and defensive team of every record are the home and the
\* visitor team, one each, whatever the row's responsible team is.
TeamRoles ==
    \A i \in 1..Len(poss_df) :
        /\ {poss_df[i].offensive_team_id, poss_df[i].defensive_team_id}
             = {home_id, visitor_id}
        /\ poss_df[i].offensive_team_id # poss_df[i].defensive_team_id

\* A rebound and a turnover whose responsible team is neither team's id
\* both produced a record.
TeamRolesWitness ==
    /\ \E i \in 1..Len(poss_df) :
          LET row == RowAt(poss_df[i].eventnum)
          IN  row.eventmsgtype = 4 /\ row.player1_team_id \notin {home_id, visitor_id}
    /\ \E i \in 1..Len(poss_df) :
          LET row == RowAt(poss_df[i].eventnum)
          IN  row.eventmsgtype = 5 /\ row.player1_team_id \notin {home_id, visitor_id}

FirstResult == IF Len(first_trace) = 0 THEN <<>> ELSE Last(first_trace)[2]

----------------------------------------------------------------------------
(* C8-C10                                                                  *)

\* The rows strictly between the cursor and row k that are a missed field
\* goal or a missed final free throw.
MissesBefore(k) ==
    {m \in 1..(k - 1) :
        /\ pbp_df[m].eventnum > CursorBefore(k)
        /\ \/ MissedFieldGoal(pbp_df[m])
           \/ FreeThrow(pbp_df[m]) /\ Missed(pbp_df[m]) /\ FinalAttempt(pbp_df[m])}
QualifyingMiss(k) ==
    pbp_df[CHOOSE m \in MissesBefore(k) : \A o \in MissesBefore(k) : o <= m]
ReboundAfterMissedFieldGoal(k) ==
    /\ pbp_df[k].eventmsgtype = 4
    /\ MissesBefore(k) # {}
    /\ MissedFieldGoal(QualifyingMiss(k))
    /\ QualifyingMiss(k).player1_team_id \in {home_id, visitor_id}
OffensiveRebound(k) ==
    /\ ReboundAfterMissedFieldGoal(k)
    /\ pbp_df[k].player1_team_id = QualifyingMiss(k).player1_team_id
DefensiveRebound(k) ==
    /\ ReboundAfterMissedFieldGoal(k)
    /\ pbp_df[k].player1_team_id = OtherTeam(QualifyingMiss(k).player1_team_id)

\* C8: after a missed field goal by team A, a rebound by team A changes
\* neither table nor cursor; a rebound by the other team B appends a
\* zero-point record keyed at the rebound, B on defense and A on offense, and
\* moves the cursor to the rebound.
ReboundAfterMiss ==
    \A k \in 1..idx :
        /\ OffensiveRebound(k) => Unchanged(k)
        /\ DefensiveRebound(k) =>
              /\ Closes(k)
              /\ Last(TableAfter(k)).points = 0
              /\ Last(TableAfter(k)).defensive_team_id = pbp_df[k].player1_team_id
              /\ Last(TableAfter(k)).offensive_team_id
                   = QualifyingMiss(k).player1_team_id
              /\ CursorAfter(k) = pbp_df[k].eventnum

\* A miss, then the shooter's team rebounds it, then the other team does.
ReboundAfterMissWitness ==
    \E k, l \in 1..idx :
        /\ k < l
        /\ OffensiveRebound(k)
        /\ DefensiveRebound(l)
        /\ pbp_df[l].player1_team_id = home_id

TripPair(i, j) ==
    /\ i < j
    /\ MissedFieldGoal(pbp_df[i])
    /\ FreeThrow(pbp_df[j]) /\ ~Missed(pbp_df[j]) /\ Marked(pbp_df[j], "1 of 1")
    /\ SameShooter(pbp_df[i], pbp_df[j])
    /\ NoBoundaryBetween(i, j)

\* C10: a missed field goal followed (no boundary in between) by the same
\* player's made "1 of 1" free throw makes the free throw's step append,
\* retracting nothing, one record keyed at the free throw, with 1 point and
\* the shooter's team on offense.
FreeThrowTripCollapsing ==
    \A i, j \in 1..idx :
        TripPair(i, j) =>
            /\ Len(TableAfter(j)) = Len(TableBefore(j)) + 1
            /\ SubSeq(TableAfter(j), 1, Len(TableBefore(j))) = TableBefore(j)
            /\ Last(TableAfter(j)).eventnum = pbp_df[j].eventnum
            /\ Last(TableAfter(j)).points = 1
            /\ Last(TableAfter(j)).offensive_team_id = pbp_df[j].player1_team_id

----------------------------------------------------------------------------
(* C11-C12                                                                 *)

\* The step that led to the current state (none in the initial state). Every
\* step of a run leads to a state of the run, so what holds of StepTaken in
\* every state holds of every step.
StepTaken == {idx} \ {0}

\* What the classifiers report for row k at the cursor its step started from.
ReboundResult(k) == determine_rebound_type(pbp_df[k], pbp_df, CursorBefore(k))
ScoringResult(k) ==
    determine_scoring_type(pbp_df[k], pbp_df, CursorBefore(k), home_id)
ClassifiedBoundary(k) ==
    \/ pbp_df[k].eventmsgtype = 4 /\ ReboundResult(k).def_rebound
    \/ pbp_df[k].eventmsgtype \in {1, 3} /\ ScoringResult(k).valid_shot
VoidIndex(k) ==
    IF pbp_df[k].eventmsgtype = 4 THEN ReboundResult(k).remove_shot
    ELSE ScoringResult(k).remove_shot
\* Both reports of the step for row k, each classifier called once.
Classified(k) ==
    IF pbp_df[k].eventmsgtype = 4
    THEN LET res == ReboundResult(k)
         IN  [boundary |-> res.def_rebound, void |-> res.remove_shot]
    ELSE IF pbp_df[k].eventmsgtype \in {1, 3}
    THEN LET res == ScoringResult(k)
         IN  [boundary |-> res.valid_shot, void |-> res.remove_shot]
    ELSE [boundary |-> FALSE, void |-> -1]
KeyedAt(table, n) == \E i \in 1..Len(table) : table[i].eventnum = n
AppendsOne(k) ==
    /\ Len(TableAfter(k)) = Len(TableBefore(k)) + 1
    /\ SubSeq(TableAfter(k), 1, Len(TableBefore(k))) = TableBefore(k)
    /\ Last(TableAfter(k)).eventnum = pbp_df[k].eventnum

\* C11: when a confirmed boundary reports a void index that no record of the
\* table has (-1 included), the table after the step is the table before it
\* plus the one new record.
RetractionNoOp ==
    \A k \in StepTaken :
        LET step == Classified(k)
        IN  (step.boundary /\ ~KeyedAt(TableBefore(k), step.void)) =>
                AppendsOne(k)

\* A defensive rebound reported the index of a missed field goal, which has
\* no record.
RetractionNoOpWitness ==
    \E k \in 1..idx :
        /\ pbp_df[k].eventmsgtype = 4
        /\ ClassifiedBoundary(k)
        /\ VoidIndex(k) > 0
        /\ MissedFieldGoal(RowAt(VoidIndex(k)))
        /\ ~KeyedAt(TableBefore(k), VoidIndex(k))

\* The free throws in the window (cursor, row k] that the team of row k made.
MadeFreeThrowsOfSide(k) ==
    {m \in 1..k :
        /\ pbp_df[m].eventnum > CursorBefore(k)
        /\ FreeThrow(pbp_df[m]) /\ ~Missed(pbp_df[m])
        /\ pbp_df[m].player1_team_id = pbp_df[k].player1_team_id}

\* C12: on a made field goal the scoring classifier reports a valid boundary,
\* no void index, and the shot's value plus the number of free throws of the
\* window that the shooter's side made.
MadeFieldGoalScoring ==
    \A k \in 1..idx :
        MadeFieldGoal(pbp_df[k]) =>
            /\ ScoringResult(k).valid_shot
            /\ ScoringResult(k).remove_shot = -1
            /\ ScoringResult(k).points
                 = FieldGoalValue(pbp_df[k]) + Cardinality(MadeFreeThrowsOfSide(k))

----------------------------------------------------------------------------
(* C13-C15                                                                 *)

\* Positions of the rows strictly between a cursor and row k, and the
\* misses among them that can end a possession.
Between(cursor, k) ==
    {m \in 1..Len(pbp_df) :
        pbp_df[m].eventnum > cursor /\ pbp_df[m].eventnum < pbp_df[k].eventnum}
MissesBetween(cursor, k) ==
    {m \in Between(cursor, k) :
        \/ MissedFieldGoal(pbp_df[m])
        \/ FreeThrow(pbp_df[m]) /\ Missed(pbp_df[m]) /\ FinalAttempt(pbp_df[m])}
Latest(positions) == CHOOSE m \in positions : \A o \in positions : o <= m
RowsOf(df) == {df[i] : i \in 1..Len(df)}

Called == call.fn = "determine_rebound_type"
CalledMiss == pbp_df[Latest(MissesBetween(call.last_possession, call.play))]
CalledWindow == Between(call.last_possession, call.play)
\* The call found a missed final free throw whose shooter made no field goal
\* in the window.
MissedTripWithoutAndOne ==
    /\ Called
    /\ MissesBetween(call.last_possession, call.play) # {}
    /\ FreeThrow(CalledMiss)
    /\ \A m \in CalledWindow :
          ~(MadeFieldGoal(pbp_df[m]) /\ pbp_df[m].player1_id = CalledMiss.player1_id)
MadeFreeThrowsOfShooter ==
    {m \in CalledWindow :
        /\ FreeThrow(pbp_df[m]) /\ ~Missed(pbp_df[m])
        /\ pbp_df[m].player1_id = CalledMiss.player1_id}
MissedFieldGoalsOfShooter ==
    {m \in CalledWindow :
        MissedFieldGoal(pbp_df[m]) /\ pbp_df[m].player1_id = CalledMiss.player1_id}

ReboundWithoutMiss ==
    \A k \in StepTaken :
        (pbp_df[k].eventmsgtype = 4 /\ MissesBetween(CursorBefore(k), k) = {}) =>
            /\ ReboundResult(k)
                 = [def_rebound |-> FALSE, points |-> 0, remove_shot |-> -1]
            /\ Unchanged(k)

\* A rebound by the other team followed a miss that does not qualify (a
\* missed free throw that is not the last of its trip), a record in the table.
ReboundWithoutMissWitness ==
    \E k \in 3..idx :
        /\ pbp_df[k].eventmsgtype = 4
        /\ MissesBetween(CursorBefore(k), k) = {}
        /\ FreeThrow(pbp_df[k - 1]) /\ Missed(pbp_df[k - 1])
        /\ pbp_df[k].player1_team_id = OtherTeam(pbp_df[k - 1].player1_team_id)
        /\ Len(TableBefore(k)) = 1

\* C15: the misses determine_rebound_type chooses from are the missed field
\* goals and missed final free throws strictly between the cursor and the
\* rebound, and it uses the one with the highest index.
QualifyingMissSelection ==
    Called =>
        LET shot_df == qualified_shot_df(pbp_df[call.play], pbp_df,
                                         call.last_possession)
            misses == MissesBetween(call.last_possession, call.play)
        IN  /\ RowsOf(shot_df) = {pbp_df[m] : m \in misses}
            /\ misses # {} => LastByEventnum(shot_df) = pbp_df[Latest(misses)]
            /\ misses # {} =>
                  call.result.def_rebound
                    = /\ Neq(pbp_df[Latest(misses)].player1_team_id,
                             pbp_df[call.play].player1_team_id)
                      /\ Neq(pbp_df[Latest(misses)].player1_team_id,
                             pbp_df[call.play].player1_id)
            /\ misses = {} => ~call.result.def_rebound

\* The call chose the later of two misses by different teams: a missed field
\* goal, then a missed final free throw of the rebounder's opponents.
QualifyingMissSelectionWitness ==
    /\ Called
    /\ call.last_possession = 0
    /\ call.play = 3
    /\ MissesBetween(0, 3) = {1, 2}
    /\ MissedFieldGoal(pbp_df[1])
    /\ FreeThrow(pbp_df[2])
    /\ pbp_df[1].player1_team_id = pbp_df[3].player1_team_id
    /\ pbp_df[2].player1_team_id = OtherTeam(pbp_df[3].player1_team_id)
    /\ call.result.def_rebound

\* The call left out a miss at the cursor and found none after it.
QualifyingMissAtCursor ==
    /\ Called
    /\ call.last_possession = 1
    /\ MissedFieldGoal(pbp_df[1])
    /\ MissesBetween(1, call.play) = {}

----------------------------------------------------------------------------
(* C16-C20                                                                 *)

\* C16: the cursor is 0 until a step appends a record; a step changes the
\* cursor exactly when it appends a record, and then to the index of the
\* record's event; the cursor never decreases and never exceeds the index of
\* the event being processed.
CursorDiscipline ==
    /\ last_possession = (IF idx = 0 THEN 0 ELSE CursorAfter(idx))
    /\ \A k \in StepTaken :
          /\ (CursorAfter(k) # CursorBefore(k)) <=> Closes(k)
          /\ Closes(k) => CursorAfter(k) = pbp_df[k].eventnum
          /\ CursorBefore(k) <= CursorAfter(k)
          /\ CursorBefore(k) < pbp_df[k].eventnum
          /\ CursorAfter(k) <= pbp_df[k].eventnum
          /\ CursorAfter(k) # 0 => \E j \in 1..k : Closes(j)

\* The first step appended nothing (cursor 0), the second appended a record
\* (cursor 2), the third appended nothing (cursor still 2).
CursorDisciplineWitness ==
    /\ idx = 3
    /\ ~Closes(1) /\ CursorAfter(1) = 0
    /\ Closes(2) /\ CursorAfter(2) = 2
    /\ ~Closes(3) /\ last_possession = 2

NotBoundary(k) ==
    \/ pbp_df[k].eventmsgtype \notin {1, 3, 4, 5}
    \/ pbp_df[k].eventmsgtype = 4 /\ ~ReboundResult(k).def_rebound
    \/ pbp_df[k].eventmsgtype = 3 /\ ~ScoringResult(k).valid_shot

\* C17: the step for an event of another type, for a rebound classified not
\* defensive or for a free throw classified not valid leaves the table and the
\* cursor as they were.
NonBoundaryFrame ==
    \A k \in StepTaken : NotBoundary(k) => Unchanged(k)

\* After a turnover's record, a missed field goal and the shooting team's own
\* rebound each left the one-record table and the cursor alone.
NonBoundaryFrameWitness ==
    /\ idx = 3
    /\ pbp_df[1].eventmsgtype = 5
    /\ MissedFieldGoal(pbp_df[2])
    /\ pbp_df[3].eventmsgtype = 4
    /\ MissesBetween(CursorBefore(3), 3) = {2}
    /\ NotBoundary(3)
    /\ Len(poss_df) = 1 /\ last_possession = 1

\* The team that took the rebound of row k: the team field, or for a team
\* rebound the player field.
ReboundingTeam(k) ==
    IF pbp_df[k].player1_team_id = NaN THEN pbp_df[k].player1_id
    ELSE pbp_df[k].player1_team_id

\* C18: the record appended for a rebound has the rebounding team as defense
\* and the team of the miss the rebound concluded as offense, team rebounds
\* included.
ReboundRoles ==
    \A k \in 1..idx :
        (pbp_df[k].eventmsgtype = 4 /\ Closes(k)) =>
            /\ MissesBetween(CursorBefore(k), k) # {}
            /\ Last(TableAfter(k)).defensive_team_id = ReboundingTeam(k)
            /\ Last(TableAfter(k)).offensive_team_id
                 = pbp_df[Latest(MissesBetween(CursorBefore(k), k))].player1_team_id

IsPrefix(s, t) == Len(s) <= Len(t) /\ SubSeq(t, 1, Len(s)) = s

MadeBetween(cursor, k) ==
    {m \in Between(cursor, k) :
        \/ MadeFieldGoal(pbp_df[m])
        \/ FreeThrow(pbp_df[m]) /\ ~Missed(pbp_df[m])}

====
